---- MODULE Spec2Model ----
(***************************************************************************)
(* Model of package image (src/image/image.go): the option resolver `new`, *)
(* the entry point SVG and the method encoder.Encode driving a Format sink.*)
(*                                                                         *)
(* Go values are modelled as follows.  A pointer is a sequence of length   *)
(* at most one (<< >> is nil).  A map is a record [isNil, m].  A colour is *)
(* the triple of the 8-bit R, G, B fields of a color.RGBA.  A panic moves  *)
(* the run to a pc "panic_<function>".  Every call made on the sink or the canvas is  *)
(* appended to `calls` together with the loop index at which it was made.  *)
(* Where the source names an identifier that is not in scope (sqWidth,     *)
(* sqHeight, e.dark, e.light, canvas) it is read as the field of that name *)
(* reachable from the receiver (e.cfg.sqWidth, e.cfg.dark, ...).           *)
(***************************************************************************)
EXTENDS Integers, Sequences, FiniteSets, TLC

VARIABLES pc, opts, e, b, fault, i, calls, ret

vars == <<pc, opts, e, b, fault, i, calls, ret>>

----------------------------------------------------------------------------
(* Bounds of the model *)

MaxOpts == 2
MaxMarks == 2
MaxPieces == 1
MaxFaults == 1

----------------------------------------------------------------------------
(* Go values *)

NilPtr == << >>
Ptr(v) == <<v>>
Deref(p) == p[1]

NilMap == [isNil |-> TRUE, m |-> << >>]
EmptyMap == [isNil |-> FALSE, m |-> << >>]

MapSet(mp, k, v) ==
  [isNil |-> FALSE,
   m |-> [x \in (DOMAIN mp.m) \cup {k} |-> IF x = k THEN v ELSE mp.m[x]]]

NumSquares == 64
Squares == 0 .. (NumSquares - 1)

File(sq) == sq % 8
Rank(sq) == sq \div 8

RankString(r) == <<"1", "2", "3", "4", "5", "6", "7", "8">>[r + 1]
FileString(f) == <<"a", "b", "c", "d", "e", "f", "g", "h">>[f + 1]

NoPiece == [color |-> "NoColor", type |-> "NoPieceType"]
Piece(c, t) == [color |-> c, type |-> t]

ColorString(c) == IF c = "White" THEN "w" ELSE IF c = "Black" THEN "b" ELSE "-"

pieceTypeMap ==
  [t \in {"King", "Queen", "Rook", "Bishop", "Knight", "Pawn"} |->
     CASE t = "King" -> "K"
       [] t = "Queen" -> "Q"
       [] t = "Rook" -> "R"
       [] t = "Bishop" -> "B"
       [] t = "Knight" -> "N"
       [] t = "Pawn" -> "P"]

----------------------------------------------------------------------------
(* Colours *)

DefaultLight == <<235, 209, 166>>
DefaultDark == <<165, 117, 81>>
Red == <<255, 0, 0>>
Blue == <<0, 0, 255>>
CustomLight == <<250, 250, 250>>
CustomDark == <<16, 32, 48>>

\* color.RGBA.RGBA(): each 8-bit channel c becomes the 16-bit value c | c<<8
RGBA16(c) == <<c[1] * 257, c[2] * 257, c[3] * 257>>

\* uint8(float64(v) + 0.5) for a 16-bit channel value: the integer part,
\* truncated to 8 bits
ToUint8(v) == v % 256

colorToHex(c) ==
  LET w == RGBA16(c) IN <<ToUint8(w[1]), ToUint8(w[2]), ToUint8(w[3])>>

----------------------------------------------------------------------------
(* Options and configuration *)

Option(kind, light, dark, c, sqs) ==
  [kind |-> kind, light |-> light, dark |-> dark, c |-> c, sqs |-> sqs]

Flip == Option("Flip", Red, Red, Red, << >>)
SquareColors(light, dark) == Option("SquareColors", light, dark, Red, << >>)
MarkSquares(c, sqs) == Option("MarkSquares", Red, Red, c, sqs)

config(w, h, flip, light, dark) ==
  [sqWidth |-> w, sqHeight |-> h, flip |-> flip, light |-> light, dark |-> dark]

encoder(marks, cfg) == [marks |-> marks, cfg |-> cfg]

DefaultConfig == config(45, 45, FALSE, DefaultLight, DefaultDark)

\* for _, sq := range sqs { e.marks[sq] = c }
\* writing an entry of a nil map panics
RECURSIVE MarkLoop(_, _, _)
MarkLoop(marks, c, sqs) ==
  IF sqs = << >> THEN [panic |-> FALSE, marks |-> marks]
  ELSE IF marks.isNil THEN [panic |-> TRUE, marks |-> marks]
  ELSE MarkLoop(MapSet(marks, Head(sqs), c), c, Tail(sqs))

\* op(cfg, e): the closure returned by Flip, SquareColors or MarkSquares
ApplyOption(op, cfg, enc) ==
  CASE op.kind = "Flip" ->
         [panic |-> FALSE, cfg |-> [cfg EXCEPT !.flip = TRUE], e |-> enc]
    [] op.kind = "SquareColors" ->
         [panic |-> FALSE,
          cfg |-> [cfg EXCEPT !.light = op.light, !.dark = op.dark],
          e |-> enc]
    [] op.kind = "MarkSquares" ->
         LET r == MarkLoop(enc.marks, op.c, op.sqs)
         IN [panic |-> r.panic, cfg |-> cfg,
             e |-> [enc EXCEPT !.marks = r.marks]]

\* first loop of new: op(cfg, &encoder{}) for every option
RECURSIVE FirstPass(_, _)
FirstPass(options, cfg) ==
  IF options = << >> THEN [panic |-> FALSE, cfg |-> cfg]
  ELSE LET r == ApplyOption(Head(options), cfg, encoder(NilMap, NilPtr))
       IN IF r.panic THEN [panic |-> TRUE, cfg |-> r.cfg]
          ELSE FirstPass(Tail(options), r.cfg)

\* second loop of new: op(cfg, e) for every option
RECURSIVE SecondPass(_, _, _)
SecondPass(options, cfg, enc) ==
  IF options = << >> THEN [panic |-> FALSE, cfg |-> cfg, e |-> enc]
  ELSE LET r == ApplyOption(Head(options), cfg, enc)
       IN IF r.panic THEN r
          ELSE SecondPass(Tail(options), r.cfg, r.e)

\* new(options): the encoder literal sets marks only, so the returned
\* encoder's cfg field keeps its zero value
new(options) ==
  LET p1 == FirstPass(options, DefaultConfig)
  IN IF p1.panic THEN [panic |-> TRUE, e |-> encoder(NilMap, NilPtr)]
     ELSE LET p2 == SecondPass(options, p1.cfg, encoder(EmptyMap, NilPtr))
          IN [panic |-> p2.panic, e |-> p2.e]

\* e.boardSize(): dereferences e.cfg
boardSize(enc) ==
  IF enc.cfg = NilPtr THEN [panic |-> TRUE, w |-> 0, h |-> 0]
  ELSE [panic |-> FALSE,
        w |-> Deref(enc.cfg).sqWidth * 8, h |-> Deref(enc.cfg).sqHeight * 8]

----------------------------------------------------------------------------
(* Per-square helpers of Encode *)

colorForSquareSwapped(enc, sq) ==
  LET sqSum == File(sq) + Rank(sq)
  IN IF sqSum % 2 = 0 THEN Deref(enc.cfg).light ELSE Deref(enc.cfg).dark

colorForSquare(enc, sq) ==
  LET sqSum == File(sq) + Rank(sq)
  IN IF sqSum % 2 = 0 THEN Deref(enc.cfg).dark ELSE Deref(enc.cfg).light

colorForText(enc, sq) ==
  LET sqSum == File(sq) + Rank(sq)
  IN IF sqSum % 2 = 0 THEN Deref(enc.cfg).light ELSE Deref(enc.cfg).dark

xyForSquare(sq) ==
  LET fileIndex == File(sq)
      rankIndex == 7 - Rank(sq)
  IN <<fileIndex, rankIndex>>

\* the part of pieceXML's result that varies: the asset chosen and the
\* two viewBox offsets
pieceXML(x, y, p) ==
  [glyph |-> <<ColorString(p.color), pieceTypeMap[p.type]>>,
   vx |-> (-1) * x, vy |-> (-1) * y]

----------------------------------------------------------------------------
(* The sink and the calls made on it *)

Call(op, sq, x, y, a, err) ==
  [op |-> op, sq |-> sq, x |-> x, y |-> y, a |-> a, err |-> err]

\* the calls of a sink that may return an error
FaultSites ==
  {<<"Init", 0>>, <<"DrawSquare", 0>>, <<"DrawSquare", 9>>,
   <<"DrawPiece", 0>>, <<"DrawPiece", 9>>}

\* the error a sink call returns: TRUE for a non-nil error
SinkErr(flt, op, sq) == <<op, sq>> \in flt

\* f.DrawSquare(x, y, c); the result is discarded
DrawSquareCalls(enc, flt, sq) ==
  LET xy == xyForSquare(sq)
      c == colorForSquare(enc, sq)
  IN <<Call("DrawSquare", sq, xy[1], xy[2], c, SinkErr(flt, "DrawSquare", sq))>>

MarkCallsNone(enc, sq) == << >>

\* markColor, ok := e.marks[sq]; if ok { canvas.Rect(...) }
MarkCalls(enc, sq) ==
  LET xy == xyForSquare(sq)
  IN IF sq \in DOMAIN enc.marks.m
     THEN <<Call("Mark", sq, xy[1], xy[2],
                 <<Deref(enc.cfg).sqWidth, Deref(enc.cfg).sqHeight,
                   colorToHex(enc.marks.m[sq])>>, FALSE)>>
     ELSE << >>

\* p := boardMap[sq]; if p != chess.NoPiece { io.WriteString(..., pieceXML) }
PieceCalls(board, flt, sq) ==
  LET xy == xyForSquare(sq)
      p == board[sq]
  IN IF p # NoPiece
     THEN <<Call("DrawPiece", sq, xy[1], xy[2], pieceXML(xy[1], xy[2], p),
                 SinkErr(flt, "DrawPiece", sq))>>
     ELSE << >>

\* rank text on file A, file text on rank 1
LabelCalls(enc, sq) ==
  LET xy == xyForSquare(sq)
      x == xy[1]
      y == xy[2]
      sqWidth == Deref(enc.cfg).sqWidth
      sqHeight == Deref(enc.cfg).sqHeight
      txtColor == colorForText(enc, sq)
      rankText ==
        IF File(sq) = 0
        THEN <<Call("Text", sq, x + ((sqWidth * 1) \div 20),
                    y + ((sqHeight * 5) \div 20),
                    <<RankString(Rank(sq)), colorToHex(txtColor)>>, FALSE)>>
        ELSE << >>
      fileText ==
        IF Rank(sq) = 0
        THEN <<Call("Text", sq, x + ((sqWidth * 19) \div 20),
                    (y + sqHeight) - ((sqHeight * 1) \div 15),
                    <<FileString(File(sq)), colorToHex(txtColor)>>, FALSE)>>
        ELSE << >>
  IN rankText \o fileText

LoopCondShort(k) == k < 63

\* i < 64
LoopCond(k) == k < NumSquares

----------------------------------------------------------------------------
(* Inputs *)

OptionSet ==
  {Flip, SquareColors(CustomLight, CustomDark), MarkSquares(Red, << >>),
   MarkSquares(Red, <<0>>), MarkSquares(Blue, <<0, 9>>)}

OptionSeqs == UNION {[1 .. n -> OptionSet] : n \in 0 .. MaxOpts}

PieceSquares == {0, 9}
PieceSet == {Piece("White", "King"), Piece("Black", "Pawn")}

Boards ==
  {[sq \in Squares |-> IF sq \in DOMAIN f THEN f[sq] ELSE NoPiece] :
     f \in UNION {[S -> PieceSet] :
                    S \in {T \in SUBSET PieceSquares : Cardinality(T) <= MaxPieces}}}

Faults == {F \in SUBSET FaultSites : Cardinality(F) <= MaxFaults}

Configs ==
  {DefaultConfig,
   config(45, 45, TRUE, DefaultLight, DefaultDark),
   config(45, 45, FALSE, CustomLight, CustomDark),
   config(60, 30, TRUE, DefaultLight, DefaultDark)}

MarkSquaresCand == {0, 9}
MarkColors == {Red, Blue}

MarkSets ==
  {[isNil |-> FALSE, m |-> f] :
     f \in UNION {[S -> MarkColors] :
                    S \in {T \in SUBSET MarkSquaresCand : Cardinality(T) <= MaxMarks}}}

\* the receivers Encode is called on: the encoder new returns for no
\* options, and encoders whose cfg is set
Receivers ==
  {new(<< >>).e} \cup {encoder(ms, Ptr(c)) : ms \in MarkSets, c \in Configs}

----------------------------------------------------------------------------
(* The state machine *)

Init ==
  /\ b \in Boards
  /\ fault \in Faults
  /\ i = 0
  /\ calls = << >>
  /\ ret = "none"
  /\ \/ /\ pc = "SVG"
        /\ opts \in OptionSeqs
        /\ e = encoder(NilMap, NilPtr)
     \/ /\ pc = "Encode"
        /\ opts = << >>
        /\ e \in Receivers

\* SVG, line 46: e := new(opts)
SVG_new ==
  /\ pc = "SVG"
  /\ LET r == new(opts)
     IN /\ e' = r.e
        /\ pc' = IF r.panic THEN "panic_new" ELSE "SVG_boardSize"
  /\ UNCHANGED <<opts, b, fault, i, calls, ret>>

\* SVG, lines 47-54: e.boardSize(), then e.Encode(b, &svgFormat{...})
SVG_boardSize ==
  /\ pc = "SVG_boardSize"
  /\ pc' = IF boardSize(e).panic THEN "panic_SVG" ELSE "Encode"
  /\ UNCHANGED <<opts, e, b, fault, i, calls, ret>>

\* Encode, lines 141-147: boardSize, SquareMap, f.Init(); the error of Init
\* is wrapped by fmt.Errorf and the result dropped
Encode_begin ==
  /\ pc = "Encode"
  /\ LET bs == boardSize(e)
     IN IF bs.panic
        THEN /\ pc' = "panic_Encode"
             /\ UNCHANGED <<i, calls>>
        ELSE /\ calls' = <<Call("Init", 0, 0, 0, <<bs.w, bs.h>>,
                                SinkErr(fault, "Init", 0))>>
             /\ i' = 0
             /\ pc' = "loop"
  /\ UNCHANGED <<opts, e, b, fault, ret>>

\* Encode, lines 149-178: one iteration of the loop over the squares
Encode_square ==
  /\ pc = "loop"
  /\ LoopCond(i)
  /\ LET sq == i
         drawn == DrawSquareCalls(e, fault, sq) \o MarkCalls(e, sq)
                    \o PieceCalls(b, fault, sq)
     IN IF drawn[Len(drawn)].op = "DrawPiece" /\ drawn[Len(drawn)].err
        THEN /\ calls' = calls \o drawn
             /\ ret' = "err"
             /\ pc' = "returned"
             /\ UNCHANGED i
        ELSE /\ calls' = calls \o drawn \o LabelCalls(e, sq)
             /\ i' = i + 1
             /\ UNCHANGED <<pc, ret>>
  /\ UNCHANGED <<opts, e, b, fault>>

\* Encode, lines 179-180: canvas.End(); return nil
Encode_end ==
  /\ pc = "loop"
  /\ ~LoopCond(i)
  /\ calls' = Append(calls, Call("End", i, 0, 0, << >>, FALSE))
  /\ ret' = "nil"
  /\ pc' = "returned"
  /\ UNCHANGED <<opts, e, b, fault, i>>

Next ==
  \/ SVG_new
  \/ SVG_boardSize
  \/ Encode_begin
  \/ Encode_square
  \/ Encode_end

Spec == Init /\ [][Next]_vars

TypeOK ==
  /\ pc \in {"SVG", "SVG_boardSize", "Encode", "loop", "returned",
            "panic_new", "panic_SVG", "panic_Encode"}
  /\ i \in 0 .. NumSquares
  /\ ret \in {"none", "nil", "err"}
  /\ fault \in Faults
  /\ b \in Boards

----------------------------------------------------------------------------
(* Vocabulary of the properties *)

CallIdx == 1 .. Len(calls)
IdxOf(op) == {k \in CallIdx : calls[k].op = op}
IdxAt(op, sq) == {k \in CallIdx : calls[k].op = op /\ calls[k].sq = sq}
DrawOps == {"DrawSquare", "DrawPiece"}
Cfg == Deref(e.cfg)
ReturnedNil == pc = "returned" /\ ret = "nil"
Occupied == {sq \in Squares : b[sq] # NoPiece}

\* C1: if the sink's Init returns an error, Encode aborts at once: it
\* returns a non-nil error and makes no further call on the sink.
C1_InitErrorAborts ==
  (Len(calls) > 0 /\ calls[1].op = "Init" /\ calls[1].err)
    => (Len(calls) = 1 /\ pc = "returned" /\ ret = "err")

\* C2: if a DrawSquare or DrawPiece call returns an error, that call is the
\* last one Encode makes and Encode returns the error.
C2_DrawErrorPropagates ==
  \A k \in CallIdx :
    (calls[k].op \in DrawOps /\ calls[k].err)
      => (k = Len(calls) /\ pc = "returned" /\ ret = "err")

\* C3: Init is called exactly once and first; End is called at most once,
\* last, after 64 squares, only on a run without error, and exactly once
\* when Encode returns nil.
C3_Lifecycle ==
  /\ calls # << >> => (calls[1].op = "Init" /\ IdxOf("Init") = {1})
  /\ \A k \in IdxOf("End") :
       /\ k = Len(calls)
       /\ Cardinality(IdxOf("End")) = 1
       /\ Cardinality(IdxOf("DrawSquare")) = 64
       /\ \A j \in CallIdx : ~calls[j].err
  /\ ReturnedNil => Cardinality(IdxOf("End")) = 1

\* C4: an Encode that returns nil has made exactly 64 DrawSquare calls, the
\* k-th for square k-1 and each for a different cell, and exactly one piece
\* draw for every occupied square and none for an empty one.
C4_VisitsEachSquareOnce ==
  ReturnedNil =>
    LET ds == SelectSeq(calls, LAMBDA c : c.op = "DrawSquare")
    IN /\ Len(ds) = 64
       /\ \A k \in 1 .. Len(ds) : ds[k].sq = k - 1
       /\ \A j, k \in 1 .. Len(ds) :
            (ds[j].x = ds[k].x /\ ds[j].y = ds[k].y) => j = k
       /\ \A sq \in Squares :
            Cardinality(IdxAt("DrawPiece", sq)) = IF sq \in Occupied THEN 1 ELSE 0
       /\ \A k \in IdxOf("DrawPiece") : calls[k].sq \in Squares

C4_Witness ==
  /\ ReturnedNil
  /\ Occupied # {}
  /\ IdxOf("DrawPiece") # {}

\* C5: new never fails, and the encoder it returns has a non-nil config and
\* a mark-set, so that boardSize yields (8 * width, 8 * height).
C5_NewTotalAndPopulated ==
  /\ pc # "panic_new"
  /\ pc = "SVG_boardSize" =>
       /\ e.cfg # NilPtr
       /\ ~e.marks.isNil
       /\ ~boardSize(e).panic
       /\ boardSize(e).w = 8 * 45 /\ boardSize(e).h = 8 * 45
  /\ pc # "panic_SVG"

\* the single left-to-right fold of the options over the defaults
RECURSIVE FoldOptions(_, _, _)
FoldOptions(options, cfg, marks) ==
  IF options = << >> THEN [cfg |-> cfg, marks |-> marks]
  ELSE LET op == Head(options)
           cfg2 == CASE op.kind = "Flip" -> [cfg EXCEPT !.flip = TRUE]
                     [] op.kind = "SquareColors" ->
                          [cfg EXCEPT !.light = op.light, !.dark = op.dark]
                     [] OTHER -> cfg
           marks2 == IF op.kind = "MarkSquares"
                     THEN [sq \in (DOMAIN marks) \cup {op.sqs[n] : n \in DOMAIN op.sqs} |->
                             IF \E n \in DOMAIN op.sqs : op.sqs[n] = sq
                             THEN op.c ELSE marks[sq]]
                     ELSE marks
       IN FoldOptions(Tail(options), cfg2, marks2)

\* C6: for every option sequence, new returns, and the config and mark-set
\* of the encoder it returns are those of the single fold over the defaults.
C6_NewIsSingleFold ==
  /\ pc # "panic_new"
  /\ pc = "SVG_boardSize" =>
       LET r == FoldOptions(opts, config(45, 45, FALSE, <<235, 209, 166>>,
                                         <<165, 117, 81>>), << >>)
       IN /\ e.cfg = <<r.cfg>>
          /\ ~e.marks.isNil
          /\ e.marks.m = r.marks

\* C7: with the flip flag set, the square of file f and rank r is drawn at
\* cell (7 - f, r); without it, at (f, 7 - r).
C7_FlipRotatesBoard ==
  \A k \in IdxOf("DrawSquare") :
    LET f == calls[k].sq % 8
        r == calls[k].sq \div 8
    IN IF Cfg.flip
       THEN calls[k].x = 7 - f /\ calls[k].y = r
       ELSE calls[k].x = f /\ calls[k].y = 7 - r

GlyphFor(p) ==
  <<IF p.color = "White" THEN "w" ELSE "b",
    CASE p.type = "King" -> "K" [] p.type = "Queen" -> "Q"
      [] p.type = "Rook" -> "R" [] p.type = "Bishop" -> "B"
      [] p.type = "Knight" -> "N" [] p.type = "Pawn" -> "P">>

\* C8: a piece drawn at cell (x, y) has the view-window offset
\* (-(x * square width), -(y * square height)) and the glyph of its
\* (colour, type) pair.
C8_PieceOffsetIsNegatedPixels ==
  \A k \in IdxOf("DrawPiece") :
    /\ calls[k].a.vx = 0 - (calls[k].x * Cfg.sqWidth)
    /\ calls[k].a.vy = 0 - (calls[k].y * Cfg.sqHeight)
    /\ calls[k].a.glyph = GlyphFor(b[calls[k].sq])

\* C9: the colour passed to DrawSquare is the configured dark colour when
\* file + rank of the square is even and the configured light colour
\* otherwise, whatever the colours, the flip flag and the mark-set.
C9_FillColourByParity ==
  \A k \in IdxOf("DrawSquare") :
    LET sq == calls[k].sq
    IN calls[k].a = IF ((sq % 8) + (sq \div 8)) % 2 = 0
                    THEN Cfg.dark ELSE Cfg.light

C9_Witness ==
  /\ ReturnedNil
  /\ Cfg.flip
  /\ Cfg.dark = CustomDark \/ Cfg.sqWidth = 60
  /\ DOMAIN e.marks.m # {}
  /\ \E j, k \in IdxOf("DrawSquare") :
       calls[j].a = Cfg.dark /\ calls[k].a = Cfg.light

\* the state part of C10
C10_Overlays ==
  /\ \A sq \in {calls[k].sq : k \in IdxOf("DrawSquare")} :
       Cardinality(IdxAt("Mark", sq)) = IF sq \in DOMAIN e.marks.m THEN 1 ELSE 0
  /\ \A k \in IdxOf("Mark") :
       /\ k > 1
       /\ calls[k - 1].op = "DrawSquare"
       /\ calls[k - 1].sq = calls[k].sq
       /\ calls[k].x = calls[k - 1].x /\ calls[k].y = calls[k - 1].y
       /\ calls[k].a[3] = e.marks.m[calls[k].sq]
       /\ \A j \in IdxAt("DrawPiece", calls[k].sq) : j > k
       /\ \A j \in IdxAt("DrawSquare", calls[k].sq) : j < k

\* C10: every square Encode has drawn has exactly one overlay draw if it is
\* in the mark-set and none otherwise; the overlay has the square's mark
\* colour and cell, directly follows the square's fill draw and precedes its
\* piece draw; no step of Encode changes the mark-set.
C10_MarkOverlays ==
  /\ []C10_Overlays
  /\ [][(pc \in {"Encode", "loop"}) => ((e').marks = (e).marks)]_vars

C10_Witness ==
  /\ ReturnedNil
  /\ 0 \in DOMAIN e.marks.m
  /\ 0 \in Occupied
  /\ 9 \notin DOMAIN e.marks.m
  /\ IdxAt("Mark", 0) # {}
  /\ IdxAt("DrawPiece", 0) # {}

====
